---- MODULE Spec2Model ----
(***************************************************************************)
(* seadrive-gui: the message poller (src/src/message-poller.cpp).          *)
(*                                                                         *)
(* A QTimer owned by MessagePoller fires every kCheckNotificationInterval- *)
(* MSecs; its timeout() signal is connected, in the constructor, to four   *)
(* slots that each poll one channel of the daemon's RPC client and drive   *)
(* the tray icon.  Everything runs on the GUI thread: a slot runs to       *)
(* completion, except that processNotification blocks in                   *)
(* gui->deletingConfirmationBox() for the two confirmation types.          *)
(*                                                                         *)
(* A QString is modelled as a sequence of tokens.  The separators ".",     *)
(* "/" and " " are tokens of their own, so that startsWith, split,         *)
(* trimmed, getBaseName and the delete-files pattern are computed on the   *)
(* value and not assumed.                                                  *)
(***************************************************************************)
EXTENDS Integers, Sequences, FiniteSets, TLC

(* ------------------------------ bounds --------------------------------- *)

\* confirmation ids the daemon may use
NumConfirmationIds == 2
\* longest sync-error list the daemon returns
MaxSyncErrors == 1
\* sent_bytes and recv_bytes of a status payload add up to at most 2 * MaxBytes
MaxBytes == 1

(* ------------------------------ QString -------------------------------- *)

Last(s) == s[Len(s)]

StartsWith(s, p) == Len(s) >= Len(p) /\ SubSeq(s, 1, Len(p)) = p

RECURSIVE SplitAcc(_, _, _, _)
SplitAcc(s, sep, cur, acc) ==
    IF s = <<>> THEN Append(acc, cur)
    ELSE IF Head(s) = sep THEN SplitAcc(Tail(s), sep, <<>>, Append(acc, cur))
    ELSE SplitAcc(Tail(s), sep, Append(cur, Head(s)), acc)

\* QString::split(sep): the pieces between separators, empty pieces kept
Split(s, sep) == SplitAcc(s, sep, <<>>, <<>>)

RECURSIVE TrimLeft(_)
TrimLeft(s) == IF s # <<>> /\ Head(s) = " " THEN TrimLeft(Tail(s)) ELSE s

RECURSIVE TrimRight(_)
TrimRight(s) ==
    IF s # <<>> /\ Last(s) = " " THEN TrimRight(SubSeq(s, 1, Len(s) - 1)) ELSE s

\* QString::trimmed()
Trimmed(s) == TrimRight(TrimLeft(s))

RECURSIVE Arg(_, _, _)
\* QString::arg: every occurrence of the place marker is replaced
Arg(fmt, marker, x) ==
    IF fmt = <<>> THEN <<>>
    ELSE IF Head(fmt) = marker THEN x \o Arg(Tail(fmt), marker, x)
    ELSE <<Head(fmt)>> \o Arg(Tail(fmt), marker, x)

Arg1(fmt, x) == Arg(fmt, "%1", x)

\* QString::arg(a, b): %1 and %2 are replaced in one pass
RECURSIVE Arg2(_, _, _)
Arg2(fmt, a, b) ==
    IF fmt = <<>> THEN <<>>
    ELSE IF Head(fmt) = "%1" THEN a \o Arg2(Tail(fmt), a, b)
    ELSE IF Head(fmt) = "%2" THEN b \o Arg2(Tail(fmt), a, b)
    ELSE <<Head(fmt)>> \o Arg2(Tail(fmt), a, b)

RECURSIVE NonEmptyPieces(_)
NonEmptyPieces(ps) ==
    IF ps = <<>> THEN <<>>
    ELSE IF Head(ps) = <<>> THEN NonEmptyPieces(Tail(ps))
    ELSE <<Head(ps)>> \o NonEmptyPieces(Tail(ps))

RECURSIVE JoinPath(_)
JoinPath(ps) == IF ps = <<>> THEN <<>> ELSE <<"/">> \o Head(ps) \o JoinPath(Tail(ps))

\* utils/file-utils getBaseName: the last component of a path
getBaseName(path) ==
    LET ps == NonEmptyPieces(Split(path, "/"))
    IN  IF ps = <<>> THEN <<>> ELSE Last(ps)

\* utils/file-utils getParentPath: the path without its last component
getParentPath(path) ==
    LET ps == NonEmptyPieces(Split(path, "/"))
    IN  IF ps = <<>> THEN <<>> ELSE JoinPath(SubSeq(ps, 1, Len(ps) - 1))

\* QRegularExpression("Deleted \"(.+)\" and (.+) more files.").match(s): the
\* literal parts of the pattern are single tokens, the groups are greedy
DeleteFilesMatch(s) ==
    LET n  == Len(s)
        Ms == { <<i, j, k>> \in (1..n) \X (1..n) \X (1..n) :
                  /\ s[i] = "Deleted \"" /\ s[j] = "\" and " /\ s[k] = " more files."
                  /\ j > i + 1 /\ k > j + 1 }
    IN  IF Ms = {} THEN [hasMatch |-> FALSE, cap1 |-> <<>>, cap2 |-> <<>>]
        ELSE LET i == CHOOSE a \in {m[1] : m \in Ms} : \A b \in {m[1] : m \in Ms} : a <= b
                 Js == {m[2] : m \in {x \in Ms : x[1] = i}}
                 j == CHOOSE a \in Js : \A b \in Js : a >= b
                 Ks == {m[3] : m \in {x \in Ms : x[1] = i /\ x[2] = j}}
                 k == CHOOSE a \in Ks : \A b \in Ks : a >= b
             IN  [hasMatch |-> TRUE,
                  cap1 |-> SubSeq(s, i + 1, j - 1),
                  cap2 |-> SubSeq(s, j + 1, k - 1)]

(* ------------------------------- Json ---------------------------------- *)

\* Json::getString / getLong / getBool: a defaulting lookup
getString(json, key) == IF key \in DOMAIN json THEN json[key] ELSE <<>>
getLong(json, key) == IF key \in DOMAIN json THEN json[key] ELSE 0
getBool(json, key) == IF key \in DOMAIN json THEN json[key] ELSE FALSE

(* --------------------------- message tags ------------------------------ *)

Tag2(a, b) == <<a, ".", b>>

T_create_root_file == Tag2("fs_op_error", "create_root_file")
T_remove_repo == Tag2("fs_op_error", "remove_repo")
T_download_start == Tag2("file-download", "start")
T_download_done == Tag2("file-download", "done")
T_sync_done == Tag2("sync", "done")
T_sync_error == Tag2("sync", "error")
T_multipart_upload == Tag2("sync", "multipart_upload")
T_fs_loaded == <<"fs-loaded">>
T_cross_repo_move_prefix == <<"cross-repo-move", ".">>
T_del_confirmation == <<"del_confirmation">>
T_del_repo_confirmation == <<"del_repo_confirmation">>
T_get_share_link == Tag2("action", "get_share_link")
T_get_internal_link == Tag2("action", "get_internal_link")
T_get_upload_link == Tag2("action", "get_upload_link")
T_view_file_history == Tag2("action", "view_file_history")

ActionTypes ==
    {T_get_share_link, T_get_internal_link, T_get_upload_link, T_view_file_history}

ConfirmationTypes == {T_del_confirmation, T_del_repo_confirmation}

(* ------------------------------ program -------------------------------- *)

kCheckNotificationIntervalMSecs == 1000

\* the granularity at which the model lets time pass
TimeStep == kCheckNotificationIntervalMSecs \div 2

\* SeaDriveEvent::fromJson
SeaDriveEvent_fromJson(json) ==
    LET type == getString(json, "type")
    IN  [fs_op_error |-> IF type = T_create_root_file THEN "CREATE_ROOT_FILE"
                         ELSE IF type = T_remove_repo THEN "REMOVE_REPO"
                         ELSE "UNKNOWN_ERROR",
         path |-> getString(json, "path"),
         type |-> type]


\* SyncNotification::isSyncError / isCrossRepoMove (message-poller.h)
isSyncError(n) == n.type = T_sync_error
isCrossRepoMove(n) == StartsWith(n.type, T_cross_repo_move_prefix)

\* rpc/sync-error.h; only equality with this id is used
SYNC_ERROR_ID_INVALID_PATH_ON_WINDOWS == 1

\* SyncError::syncErrorIdToErrorStr: the catalog's text for an error id
syncErrorIdToErrorStr(id, path) == <<"sync error ", ToString(id)>>

\* utils/translate-commit-desc
translateCommitDesc(desc) == IF desc = <<>> THEN <<>> ELSE <<"tr: ">> \o desc

\* a default-constructed SyncNotification
DefaultNotification ==
    [type |-> <<>>, repo_id |-> <<>>, repo_name |-> <<>>, commit_id |-> <<>>,
     parent_commit_id |-> <<>>, commit_desc |-> <<>>, error_id |-> 0,
     error_path |-> <<>>, error |-> <<>>,
     move |-> [src_path |-> <<>>, dst_path |-> <<>>, type |-> <<>>],
     confirmation_id |-> <<>>, delete_files |-> <<>>,
     repo_path |-> <<>>, domain_id |-> <<>>, is_dir |-> FALSE]

\* mutant: every key is read whatever the type
SyncNotification_fromJson_readsAll(json) ==
    [type |-> getString(json, "type"),
     repo_id |-> getString(json, "repo_id"),
     repo_name |-> getString(json, "repo_name"),
     commit_id |-> getString(json, "commit_id"),
     parent_commit_id |-> getString(json, "parent_commit_id"),
     commit_desc |-> getString(json, "commit_desc"),
     error_id |-> getLong(json, "err_id"),
     error_path |-> getString(json, "path"),
     error |-> <<>>,
     move |-> [src_path |-> getString(json, "srcpath"),
               dst_path |-> getString(json, "dstpath"),
               type |-> Last(Split(getString(json, "type"), "."))],
     confirmation_id |-> getString(json, "confirmation_id"),
     delete_files |-> getString(json, "delete_files"),
     repo_path |-> getString(json, "repo_path"),
     domain_id |-> getString(json, "domain_id"),
     is_dir |-> getBool(json, "is_dir")]

\* SyncNotification::fromJson
SyncNotification_fromJson(json) ==
    LET type == getString(json, "type")
        n0   == [DefaultNotification EXCEPT !.type = type]
    IN  IF StartsWith(type, T_cross_repo_move_prefix) THEN
            [n0 EXCEPT !.move = [src_path |-> getString(json, "srcpath"),
                                 dst_path |-> getString(json, "dstpath"),
                                 type |-> Last(Split(type, "."))]]
        ELSE IF type = T_del_confirmation THEN
            [n0 EXCEPT !.repo_name = getString(json, "repo_name"),
                       !.confirmation_id = getString(json, "confirmation_id"),
                       !.delete_files = getString(json, "delete_files")]
        ELSE IF type = T_del_repo_confirmation THEN
            [n0 EXCEPT !.repo_name = getString(json, "repo_name"),
                       !.confirmation_id = getString(json, "confirmation_id")]
        ELSE IF type \in ActionTypes THEN
            [n0 EXCEPT !.repo_id = getString(json, "repo_id"),
                       !.repo_path = getString(json, "repo_path"),
                       !.domain_id = getString(json, "domain_id"),
                       !.is_dir = getBool(json, "is_dir")]
        ELSE
            LET n1 == [n0 EXCEPT !.repo_id = getString(json, "repo_id"),
                                 !.repo_name = getString(json, "repo_name"),
                                 !.commit_id = getString(json, "commit_id"),
                                 !.parent_commit_id = getString(json, "parent_commit_id"),
                                 !.commit_desc = getString(json, "commit_desc")]
            IN  IF isSyncError(n1) THEN
                    [n1 EXCEPT !.error_id = getLong(json, "err_id"),
                               !.error_path = getString(json, "path"),
                               !.error = syncErrorIdToErrorStr(getLong(json, "err_id"),
                                                               getString(json, "path"))]
                ELSE n1

\* GlobalSyncStatus::fromJson; is_syncing is a bool assigned from a long
GlobalSyncStatus_fromJson(json) ==
    [is_syncing |-> getLong(json, "is_syncing") # 0,
     sent_bytes |-> getLong(json, "sent_bytes"),
     recv_bytes |-> getLong(json, "recv_bytes")]

\* one JSON error object to one SyncError
SyncError_fromJSON(obj) ==
    [error_id |-> getLong(obj, "err_id"),
     error_str |-> syncErrorIdToErrorStr(getLong(obj, "err_id"), <<>>)]

\* SyncError::listFromJSON: the array decoded element by element, in order
SyncError_listFromJSON(arr) == [i \in 1..Len(arr) |-> SyncError_fromJSON(arr[i])]

(* ------------------------- Action Sink calls --------------------------- *)

ShowMessage(title, body, repo_id, commit_id, parent_commit_id, icon) ==
    [op |-> "showMessage", title |-> title, body |-> body, repo_id |-> repo_id,
     commit_id |-> commit_id, parent_commit_id |-> parent_commit_id, icon |-> icon]

\* mutant: the two texts are passed in the other order
ShowWarningMessage_swapped(title, body) ==
    [op |-> "showWarningMessage", title |-> body, body |-> title]

\* gui->trayIcon()->showWarningMessage(title, msg)
ShowWarningMessage(title, body) ==
    [op |-> "showWarningMessage", title |-> title, body |-> body]

SyncCommand(op, n) ==
    [op |-> op, repo_id |-> n.repo_id, repo_path |-> n.repo_path,
     domain_id |-> n.domain_id, is_dir |-> n.is_dir]

\* the text and info of the del_confirmation prompt
DelConfirmationText(n) ==
    LET match == DeleteFilesMatch(Trimmed(n.delete_files))
    IN  IF match.hasMatch
        THEN Arg(Arg(<<"Deleted \"", "%1", "\" and ", "%2", " more files.">>,
                     "%1", match.cap1), "%2", match.cap2)
        ELSE <<>>

DelConfirmationInfo(n) ==
    Arg1(<<"Do you want to delete files in library \"", "%1", "\" ?">>,
         Trimmed(n.repo_name))

DelRepoConfirmationText(n) ==
    Arg1(<<"Deleted library \"", "%1", "\"">>, Trimmed(n.repo_name))

DelRepoConfirmationInfo(n) ==
    Arg1(<<"Confirm to delete library \"", "%1", "\" ?">>, Trimmed(n.repo_name))

\* mutant: the error subtype gets the texts of the done subtype
CrossRepoMoveTexts_errorAsDone(n) ==
    LET src == getBaseName(n.move.src_path)
        dst == getParentPath(n.move.dst_path) \o <<"/">>
    IN  IF n.move.type = <<"start">> THEN
            [title |-> Arg1(<<"Starting to move \"", "%1", "\"">>, src),
             msg |-> Arg2(<<"Starting to move \"", "%1", "\" to \"", "%2", "\"">>, src, dst)]
        ELSE IF n.move.type \in {<<"done">>, <<"error">>} THEN
            [title |-> Arg1(<<"Successfully moved \"", "%1", "\"">>, src),
             msg |-> Arg2(<<"Successfully moved \"", "%1", "\" to \"", "%2", "\"">>, src, dst)]
        ELSE [title |-> <<>>, msg |-> <<>>]

\* the title and message of a cross-repo-move notification
CrossRepoMoveTexts(n) ==
    LET src == getBaseName(n.move.src_path)
        dst == getParentPath(n.move.dst_path) \o <<"/">>
    IN  IF n.move.type = <<"start">> THEN
            [title |-> Arg1(<<"Starting to move \"", "%1", "\"">>, src),
             msg |-> Arg2(<<"Starting to move \"", "%1", "\" to \"", "%2", "\"">>, src, dst)]
        ELSE IF n.move.type = <<"done">> THEN
            [title |-> Arg1(<<"Successfully moved \"", "%1", "\"">>, src),
             msg |-> Arg2(<<"Successfully moved \"", "%1", "\" to \"", "%2", "\"">>, src, dst)]
        ELSE IF n.move.type = <<"error">> THEN
            [title |-> Arg1(<<"Failed to move \"", "%1", "\"">>, src),
             msg |-> Arg2(<<"Failed to move \"", "%1", "\" to \"", "%2", "\"">>, src, dst)]
        ELSE [title |-> <<>>, msg |-> <<>>]

\* the title of a sync.error notification
SyncErrorTitle(n) ==
    LET path_in_title ==
            IF n.repo_name # <<>> THEN n.repo_name
            ELSE IF n.error_path # <<>> THEN getBaseName(n.error_path)
            ELSE <<>>
    IN  IF path_in_title # <<>>
        THEN Arg1(<<"Error when syncing \"", "%1", "\"">>, path_in_title)
        ELSE <<"Error when syncing">>

\* a branch of processNotification that calls nothing
NoCalls == [sink |-> <<>>, fs_loaded |-> 0, prompt |-> FALSE]

\* mutant: an unknown message falls into a confirmation prompt
UnknownMessage_prompts(n) ==
    [sink |-> <<[op |-> "deletingConfirmationBox", title |-> <<>>, body |-> <<>>]>>,
     fs_loaded |-> 0, prompt |-> TRUE]

\* the final else of processNotification: qWarning("Unknown message ...")
UnknownMessage(n) == NoCalls

\* mutant: the message is shown and the signal is not emitted
FsLoadedCalls_noSignal ==
    [sink |-> <<ShowMessage(<<"Libraries are ready">>,
                            <<"All libraries are loaded and ready to use.">>,
                            <<>>, <<>>, <<>>, "Information")>>,
     fs_loaded |-> 0, prompt |-> FALSE]

\* the fs-loaded branch of processNotification: showMessage, then
\* emit seadriveFSLoaded()
FsLoadedCalls ==
    [sink |-> <<ShowMessage(<<"Libraries are ready">>,
                            <<"All libraries are loaded and ready to use.">>,
                            <<>>, <<>>, <<>>, "Information")>>,
     fs_loaded |-> 1, prompt |-> FALSE]

\* mutant: sync.done is shown whatever notify() returns
SyncDoneCalls_ungated(n, notify) ==
    [sink |-> <<ShowMessage(Arg1(<<"\"", "%1", "\" is synchronized">>, n.repo_name),
                            translateCommitDesc(n.commit_desc),
                            n.repo_id, n.commit_id, n.parent_commit_id,
                            "Information")>>,
     fs_loaded |-> 0, prompt |-> FALSE]

\* the sync.done branch of processNotification
SyncDoneCalls(n, notify) ==
    IF ~notify THEN NoCalls
    ELSE [sink |-> <<ShowMessage(Arg1(<<"\"", "%1", "\" is synchronized">>, n.repo_name),
                                 translateCommitDesc(n.commit_desc),
                                 n.repo_id, n.commit_id, n.parent_commit_id,
                                 "Information")>>,
          fs_loaded |-> 0, prompt |-> FALSE]

\* MessagePoller::processNotification up to its return or to the call of
\* gui->deletingConfirmationBox: the Action Sink calls made, the
\* seadriveFSLoaded signals emitted, and whether the prompt is opened.
\* notify is settingsManager()->notify(), mac is Q_OS_MAC, hide is what
\* getHideWindowsIncompatibilityPathMsg() returns and valid what
\* account.isValid() returns.
processNotification(n, notify, mac, hide, valid) ==
    LET none == NoCalls
        show(call) == [sink |-> <<call>>, fs_loaded |-> 0, prompt |-> FALSE]
        cmd(op) == IF mac /\ valid THEN show(SyncCommand(op, n)) ELSE none
    IN  IF n.type = T_sync_done THEN SyncDoneCalls(n, notify)
        ELSE IF n.type = T_sync_error THEN
            IF mac /\ n.error_id = SYNC_ERROR_ID_INVALID_PATH_ON_WINDOWS /\ hide THEN none
            ELSE show(ShowMessage(SyncErrorTitle(n), n.error, n.repo_id, <<>>, <<>>,
                                  "Warning"))
        ELSE IF n.type = T_multipart_upload THEN
            IF ~notify THEN none
            ELSE show(ShowMessage(Arg1(<<"\"", "%1", "\" is being uploaded">>, n.repo_name),
                                  translateCommitDesc(n.commit_desc),
                                  n.repo_id, n.commit_id, n.parent_commit_id,
                                  "Information"))
        ELSE IF n.type = T_fs_loaded THEN FsLoadedCalls
        ELSE IF isCrossRepoMove(n) THEN
            show(ShowMessage(CrossRepoMoveTexts(n).title, CrossRepoMoveTexts(n).msg,
                             <<>>, <<>>, <<>>, "Information"))
        ELSE IF n.type = T_del_confirmation THEN
            [sink |-> <<[op |-> "deletingConfirmationBox",
                         title |-> DelConfirmationText(n),
                         body |-> DelConfirmationInfo(n)]>>,
             fs_loaded |-> 0, prompt |-> TRUE]
        ELSE IF n.type = T_del_repo_confirmation THEN
            [sink |-> <<[op |-> "deletingConfirmationBox",
                         title |-> DelRepoConfirmationText(n),
                         body |-> DelRepoConfirmationInfo(n)]>>,
             fs_loaded |-> 0, prompt |-> TRUE]
        ELSE IF n.type = T_get_share_link THEN cmd("doShareLink")
        ELSE IF n.type = T_get_internal_link THEN cmd("doInternalLink")
        ELSE IF n.type = T_get_upload_link THEN cmd("doGetUploadLink")
        ELSE IF n.type = T_view_file_history THEN cmd("doShowFileHistory")
        ELSE UnknownMessage(n)

\* mutant: the prompt result is passed on as it is
DelConfirmationArg_notNegated(box_result) == box_result

\* the second argument of addDelConfirmation for a prompt result
\* (processNotification, both confirmation branches)
DelConfirmationArg(box_result) == IF box_result THEN FALSE ELSE TRUE

\* mutant: the daemon is answered only when the user confirmed
DelConfirmationCalls_onlyWhenConfirmed(confirmation_id, box_result) ==
    IF box_result
    THEN <<[op |-> "addDelConfirmation", id |-> confirmation_id, arg |-> FALSE]>>
    ELSE <<>>

\* the Daemon Client calls processNotification makes once the prompt returned
DelConfirmationCalls(confirmation_id, box_result) ==
    <<[op |-> "addDelConfirmation", id |-> confirmation_id,
       arg |-> DelConfirmationArg(box_result)]>>

\* mutant: the download branches leave last_event_type_ alone
DownloadEventType_notWritten(event, old_type) == old_type

\* last_event_type_ = event.type in the two file-download branches
DownloadEventType(event, old_type) == event.type

\* mutant: the default case shows a warning as the cases above it do
UnknownFsOpError_warns(old_type) ==
    [sink |-> <<ShowWarningMessage(<<"Failed to delete folder">>, <<>>)>>,
     last_event_type |-> old_type]

\* the default case of the switch on event.fs_op_error: nothing is done
UnknownFsOpError(old_type) == [sink |-> <<>>, last_event_type |-> old_type]

\* MessagePoller::processSeaDriveEvent: the Action Sink calls made and the
\* new last_event_type_ (last_event_path_ is always written)
processSeaDriveEvent(event, old_type) ==
    IF event.type = T_download_start THEN
        [sink |-> <<ShowMessage(<<"Download file">>,
                                Arg1(<<"Start to download file \"", "%1", "\" ">>,
                                     getBaseName(event.path)),
                                <<>>, <<>>, <<>>, "Information")>>,
         last_event_type |-> DownloadEventType(event, old_type)]
    ELSE IF event.type = T_download_done THEN
        [sink |-> <<ShowMessage(<<"Download file">>,
                                Arg1(<<"file \"", "%1", "\" has been downloaded ">>,
                                     getBaseName(event.path)),
                                <<>>, <<>>, <<>>, "Information")>>,
         last_event_type |-> DownloadEventType(event, old_type)]
    ELSE IF event.fs_op_error = "CREATE_ROOT_FILE" THEN
        [sink |-> <<ShowWarningMessage(
                        Arg1(<<"Failed to create file \"", "%1", "\"">>,
                             getBaseName(event.path)),
                        <<"You can't create files in the mount folder directly">>)>>,
         last_event_type |-> old_type]
    ELSE IF event.fs_op_error = "REMOVE_REPO" THEN
        [sink |-> <<ShowWarningMessage(
                        <<"Failed to delete folder">>,
                        Arg1(<<"You can't delete the library \"", "%1", "\" directly">>,
                             getBaseName(event.path)))>>,
         last_event_type |-> old_type]
    ELSE UnknownFsOpError(old_type)


(* ------------------------- the daemon's payloads ----------------------- *)

Path_foo == <<"/", "mnt", "/", "x", "/", "foo.txt">>
Path_dst == <<"/", "mnt", "/", "lib", "/", "bar.txt">>

ConfirmationIds == { <<"conf-", ToString(i)>> : i \in 1..NumConfirmationIds }

FsEventPayloads ==
    { [type |-> t, path |-> Path_foo] :
        t \in {T_create_root_file, T_remove_repo, T_download_start, T_download_done,
               Tag2("fs_op_error", "rename")} }
    \cup { [path |-> Path_foo], [type |-> T_create_root_file] }

CommitFields(t) ==
    [type |-> t, repo_id |-> <<"repo-1">>, repo_name |-> <<"Docs">>,
     commit_id |-> <<"commit-2">>, parent_commit_id |-> <<"commit-1">>,
     commit_desc |-> <<"edit">>]

NotificationPayloads ==
    { CommitFields(T_sync_done), CommitFields(T_multipart_upload),
      CommitFields(T_fs_loaded), [type |-> T_fs_loaded],
      CommitFields(<<"bogus">>), [repo_name |-> <<"Docs">>] }
    \cup { [type |-> T_sync_error, repo_id |-> <<"repo-1">>, repo_name |-> <<"Docs">>,
            err_id |-> SYNC_ERROR_ID_INVALID_PATH_ON_WINDOWS, path |-> Path_foo],
           [type |-> T_sync_error, err_id |-> 0, path |-> Path_foo],
           [type |-> T_sync_error, err_id |-> 0] }
    \cup { [type |-> T_cross_repo_move_prefix \o sub, srcpath |-> Path_foo,
            dstpath |-> Path_dst] :
            sub \in {<<"start">>, <<"done">>, <<"error">>, <<"cancel">>, <<>>,
                     <<"start", ".", "done">>} }
    \cup { [type |-> T_del_confirmation, repo_name |-> <<" ", "Docs", " ">>,
            confirmation_id |-> id,
            delete_files |-> <<"Deleted \"", "a.txt", "\" and ", "3", " more files.", " ">>] :
            id \in ConfirmationIds }
    \cup { [type |-> T_del_confirmation, repo_name |-> <<"Docs">>,
            confirmation_id |-> <<"conf-", "1">>, delete_files |-> <<"a.txt">>,
            repo_id |-> <<"repo-1">>, commit_id |-> <<"commit-2">>] }
    \cup { [type |-> T_del_repo_confirmation, repo_name |-> <<"Docs">>,
            confirmation_id |-> id] : id \in ConfirmationIds }
    \cup { [type |-> T_del_repo_confirmation] }
    \cup { [type |-> t, repo_id |-> <<"repo-1">>, repo_path |-> Path_foo,
            domain_id |-> <<"domain-1">>, is_dir |-> FALSE] : t \in ActionTypes }

SyncStatusPayloads ==
    { [is_syncing |-> 1, sent_bytes |-> a, recv_bytes |-> MaxBytes - a] : a \in 0..MaxBytes }
    \cup { [is_syncing |-> 1, sent_bytes |-> 0, recv_bytes |-> 0],
           [is_syncing |-> 0, sent_bytes |-> MaxBytes, recv_bytes |-> MaxBytes],
           [sent_bytes |-> MaxBytes, recv_bytes |-> MaxBytes] }

ErrorObjects == { [err_id |-> 0], [err_id |-> 1] }

SeqsUpTo(S, n) == UNION { [1..k -> S] : k \in 0..n }

SyncErrorsPayloads == SeqsUpTo(ErrorObjects, MaxSyncErrors)

(* ------------------------------- state --------------------------------- *)

VARIABLES
    connected,          \* rpc_client_->isConnected()
    notify,             \* gui->settingsManager()->notify()
    mac,                \* built with Q_OS_MAC
    timers,             \* the running timers behind check_notification_timer_
    connections,        \* the slots connected to the timer's timeout(), in order
    slot_idx,           \* 0: event loop idle; i: connections[i] is the next slot of this tick
    box_open,           \* processNotification is blocked in deletingConfirmationBox
    notification,       \* the notification processNotification is blocked on
    last_event_path_,
    last_event_type_,
    tray,               \* gui->trayIcon(): the error list, the animation, the rate
    rpc_log,            \* the Daemon Client calls of the slot that ran last
    sink_log,           \* the tray, dialog and platform calls of the slot that ran last
    fs_loaded_emitted,  \* seadriveFSLoaded emissions of the slot that ran last
    tick_trace,         \* the slots run so far by the current tick
    lifecycle           \* the last lifecycle call: "constructed", "started", "dead", "restarted"

vars == <<connected, notify, mac, timers, connections, slot_idx, box_open,
          notification, last_event_path_, last_event_type_, tray, rpc_log, sink_log,
          fs_loaded_emitted, tick_trace, lifecycle>>

env == <<connected, notify, mac>>
poller == <<last_event_path_, last_event_type_>>
logs == <<rpc_log, sink_log, fs_loaded_emitted>>

\* mutant: two connect() calls in the other order
ConstructorConnections_swapped ==
    <<"checkSeaDriveEvents", "checkSyncStatus", "checkNotification", "checkSyncErrors">>

\* MessagePoller::MessagePoller: the four connect() calls, in this order
ConstructorConnections ==
    <<"checkSeaDriveEvents", "checkNotification", "checkSyncStatus", "checkSyncErrors">>

Init ==
    /\ connected \in BOOLEAN
    /\ notify \in BOOLEAN
    /\ mac \in BOOLEAN
    /\ timers = <<>>
    /\ connections = ConstructorConnections
    /\ slot_idx = 0
    /\ box_open = FALSE
    /\ notification = DefaultNotification
    /\ last_event_path_ = <<>>
    /\ last_event_type_ = <<>>
    /\ tray = [sync_errors |-> <<>>, rotating |-> FALSE, sent |-> 0, recv |-> 0]
    /\ rpc_log = <<>>
    /\ sink_log = <<>>
    /\ fs_loaded_emitted = 0
    /\ tick_trace = <<>>
    /\ lifecycle = "constructed"

Idle == slot_idx = 0 /\ ~box_open

(* --------------------------- the tick timer ---------------------------- *)

\* mutant: every start creates and starts one more timer
QTimer_start_another(ts, msec) == Append(ts, [interval |-> msec, remaining |-> msec])

\* mutant: start(msec) on a running timer leaves it as it is
QTimer_start_keepsRunning(ts, msec) ==
    IF ts = <<>> THEN <<[interval |-> msec, remaining |-> msec]>> ELSE ts

\* QTimer::start(msec) on the one timer object: it runs, restarted, with
\* interval msec, whether or not it ran before
QTimer_start(ts, msec) == <<[interval |-> msec, remaining |-> msec]>>

\* mutant: the timer is left running
QTimer_stop_not(ts) == ts

\* QTimer::stop()
QTimer_stop(ts) == <<>>

\* MessagePoller::start.  Under Q_OS_WIN32 it also connects the daemon
\* manager's daemonDead and daemonRestarted signals to onDaemonDead and
\* onDaemonRestarted; here those two slots may run whenever the event loop is
\* idle, any number of times in a row.
start ==
    /\ Idle
    /\ timers' = QTimer_start(timers, kCheckNotificationIntervalMSecs)
    /\ lifecycle' = "started"
    /\ UNCHANGED <<env, connections, slot_idx, box_open, notification, poller, tray,
                   logs, tick_trace>>

\* MessagePoller::onDaemonDead
onDaemonDead ==
    /\ Idle
    /\ timers' = QTimer_stop(timers)
    /\ lifecycle' = "dead"
    /\ UNCHANGED <<env, connections, slot_idx, box_open, notification, poller, tray,
                   logs, tick_trace>>

\* MessagePoller::onDaemonRestarted
onDaemonRestarted ==
    /\ Idle
    /\ timers' = QTimer_start(timers, kCheckNotificationIntervalMSecs)
    /\ lifecycle' = "restarted"
    /\ UNCHANGED <<env, connections, slot_idx, box_open, notification, poller, tray,
                   logs, tick_trace>>

Max(a, b) == IF a >= b THEN a ELSE b

\* time passes while the event loop is idle or the prompt is open; an expired
\* timer is served before more time passes in an idle event loop
Elapse ==
    /\ slot_idx = 0 \/ box_open
    /\ \E i \in DOMAIN timers : timers[i].remaining > 0
    /\ Idle => \A i \in DOMAIN timers : timers[i].remaining > 0
    /\ timers' = [i \in DOMAIN timers |->
                    [timers[i] EXCEPT !.remaining = Max(0, @ - TimeStep)]]
    /\ UNCHANGED <<env, connections, slot_idx, box_open, notification, poller, tray,
                   logs, tick_trace, lifecycle>>

\* the slot that follows slot i in the emission of timeout(); 0 when i was the last
NextSlot(i) == IF i < Len(connections) THEN i + 1 ELSE 0

\* an expired timer emits timeout(): the tick begins with the first connected slot
timeout ==
    /\ Idle
    /\ \E i \in DOMAIN timers :
          /\ timers[i].remaining = 0
          /\ timers' = [timers EXCEPT ![i].remaining = timers[i].interval]
    /\ slot_idx' = NextSlot(0)
    /\ tick_trace' = <<>>
    /\ rpc_log' = <<>>
    /\ sink_log' = <<>>
    /\ fs_loaded_emitted' = 0
    /\ UNCHANGED <<env, connections, box_open, notification, poller, tray, lifecycle>>

Running(slot) == slot_idx > 0 /\ ~box_open /\ connections[slot_idx] = slot

\* the entries of rpc_log: the isConnected() check with its result, a channel
\* request that failed, and a channel request with the payload it returned
IsConnected(ret) == [op |-> "isConnected", ret |-> ret]
RequestFailed(op) == [op |-> op, ret |-> FALSE]
RequestReturned(op, payload) == [op |-> op, ret |-> TRUE, payload |-> payload]

\* mutant: the test of isConnected() lost its negation
Skips_whenConnected(is_connected) == is_connected

\* mutant: the check goes on whatever isConnected() returned
Skips_never(is_connected) == FALSE

\* if (!rpc_client_->isConnected()) return;  at the head of each check
Skips(is_connected) == ~is_connected

\* mutant: a slot that returns ends the emission
SlotReturns_endsTick(slot) ==
    /\ slot_idx' = 0
    /\ tick_trace' = Append(tick_trace, slot)

\* the slot returns: the emission goes on with the next slot
SlotReturns(slot) ==
    /\ slot_idx' = NextSlot(slot_idx)
    /\ tick_trace' = Append(tick_trace, slot)

(* ------------------------------ the slots ------------------------------ *)

\* MessagePoller::checkSeaDriveEvents
checkSeaDriveEvents ==
    /\ Running("checkSeaDriveEvents")
    /\ SlotReturns("checkSeaDriveEvents")
    /\ fs_loaded_emitted' = 0
    /\ \/ /\ Skips(connected)
          /\ rpc_log' = <<IsConnected(connected)>>
          /\ sink_log' = <<>>
          /\ UNCHANGED poller
       \/ /\ ~Skips(connected)
          /\ rpc_log' = <<IsConnected(connected), RequestFailed("getSeaDriveEvents")>>
          /\ sink_log' = <<>>
          /\ UNCHANGED poller
       \/ /\ ~Skips(connected)
          /\ \E ret \in FsEventPayloads :
             /\ rpc_log' = <<IsConnected(connected), RequestReturned("getSeaDriveEvents", ret)>>
             /\ LET event == SeaDriveEvent_fromJson(ret)
                    done  == processSeaDriveEvent(event, last_event_type_)
                IN  /\ last_event_path_' = event.path
                    /\ last_event_type_' = done.last_event_type
                    /\ sink_log' = done.sink
    /\ UNCHANGED <<env, timers, connections, box_open, notification, tray, lifecycle>>

\* MessagePoller::checkNotification, to its return or to the prompt
checkNotification ==
    /\ Running("checkNotification")
    /\ \/ /\ Skips(connected)
          /\ rpc_log' = <<IsConnected(connected)>>
          /\ sink_log' = <<>>
          /\ fs_loaded_emitted' = 0
          /\ SlotReturns("checkNotification")
          /\ UNCHANGED <<box_open, notification>>
       \/ /\ ~Skips(connected)
          /\ rpc_log' = <<IsConnected(connected), RequestFailed("getSyncNotification")>>
          /\ sink_log' = <<>>
          /\ fs_loaded_emitted' = 0
          /\ SlotReturns("checkNotification")
          /\ UNCHANGED <<box_open, notification>>
       \/ /\ ~Skips(connected)
          /\ \E ret \in NotificationPayloads, hide \in BOOLEAN, valid \in BOOLEAN :
             /\ rpc_log' = <<IsConnected(connected), RequestReturned("getSyncNotification", ret)>>
             /\ LET n    == SyncNotification_fromJson(ret)
                    done == processNotification(n, notify, mac, hide, valid)
                IN  /\ sink_log' = done.sink
                    /\ fs_loaded_emitted' = done.fs_loaded
                    /\ IF done.prompt
                       THEN /\ box_open' = TRUE
                            /\ notification' = n
                            /\ UNCHANGED <<slot_idx, tick_trace>>
                       ELSE /\ SlotReturns("checkNotification")
                            /\ UNCHANGED <<box_open, notification>>
    /\ UNCHANGED <<env, timers, connections, poller, tray, lifecycle>>

\* gui->deletingConfirmationBox (seadrive-gui.cpp): TRUE when the user
\* confirmed, FALSE when the user declined or dismissed the dialog
deletingConfirmationBox(answer) == answer = "yes"

\* the blocked processNotification goes on when the prompt returns: it
\* answers the daemon, and checkNotification returns
deletingConfirmationBoxReturns ==
    /\ box_open
    /\ \E answer \in {"yes", "no", "dismissed"} :
          LET box_result == deletingConfirmationBox(answer)
          IN  /\ rpc_log' = rpc_log \o DelConfirmationCalls(notification.confirmation_id,
                                                            box_result)
              /\ sink_log' = Append(sink_log, [op |-> "deletingConfirmationBoxReturned",
                                               answer |-> answer,
                                               result |-> box_result,
                                               daemon_connected |-> connected])
    /\ box_open' = FALSE
    /\ notification' = DefaultNotification
    /\ SlotReturns("checkNotification")
    /\ UNCHANGED <<env, timers, connections, poller, tray, fs_loaded_emitted, lifecycle>>

\* mutant: the rate of the payload is passed in both branches
TransferRate_ofPayload(sync_status) ==
    [sent |-> sync_status.sent_bytes, recv |-> sync_status.recv_bytes]

\* the arguments of setTransferRate in the two branches of checkSyncStatus
TransferRate(sync_status) ==
    IF sync_status.is_syncing
    THEN [sent |-> sync_status.sent_bytes, recv |-> sync_status.recv_bytes]
    ELSE [sent |-> 0, recv |-> 0]

\* MessagePoller::checkSyncStatus
checkSyncStatus ==
    /\ Running("checkSyncStatus")
    /\ SlotReturns("checkSyncStatus")
    /\ fs_loaded_emitted' = 0
    /\ \/ /\ Skips(connected)
          /\ rpc_log' = <<IsConnected(connected)>>
          /\ sink_log' = <<>>
          /\ UNCHANGED tray
       \/ /\ ~Skips(connected)
          /\ rpc_log' = <<IsConnected(connected), RequestFailed("getGlobalSyncStatus")>>
          /\ sink_log' = <<>>
          /\ UNCHANGED tray
       \/ /\ ~Skips(connected)
          /\ \E ret \in SyncStatusPayloads :
             /\ rpc_log' = <<IsConnected(connected), RequestReturned("getGlobalSyncStatus", ret)>>
             /\ LET sync_status == GlobalSyncStatus_fromJson(ret)
                    sent == TransferRate(sync_status).sent
                    recv == TransferRate(sync_status).recv
                IN  /\ sink_log' = <<[op |-> "rotate", active |-> sync_status.is_syncing],
                                     [op |-> "setTransferRate", sent |-> sent, recv |-> recv]>>
                    /\ tray' = [tray EXCEPT !.rotating = sync_status.is_syncing,
                                            !.sent = sent, !.recv = recv]
    /\ UNCHANGED <<env, timers, connections, box_open, notification, poller, lifecycle>>

\* mutant: the list is reset when the daemon is not connected
SyncErrorsWhenDisconnected_reset(errors) == <<>>

\* what checkSyncErrors does to the tray's error list when the daemon is not
\* connected: it returns before any call
SyncErrorsWhenDisconnected(errors) == errors

\* what checkSyncErrors sets when getSyncErrors fails
SyncErrorsWhenRequestFails(errors) == <<>>

\* mutant: the decoded errors are added to those already shown
SyncErrorsWhenReturned_added(errors, ret) == errors \o SyncError_listFromJSON(ret)

\* what checkSyncErrors sets when getSyncErrors returned ret
SyncErrorsWhenReturned(errors, ret) == SyncError_listFromJSON(ret)

\* MessagePoller::checkSyncErrors
checkSyncErrors ==
    /\ Running("checkSyncErrors")
    /\ SlotReturns("checkSyncErrors")
    /\ fs_loaded_emitted' = 0
    /\ \/ /\ Skips(connected)
          /\ rpc_log' = <<IsConnected(connected)>>
          /\ sink_log' = <<>>
          /\ tray' = [tray EXCEPT !.sync_errors = SyncErrorsWhenDisconnected(@)]
       \/ /\ ~Skips(connected)
          /\ rpc_log' = <<IsConnected(connected), RequestFailed("getSyncErrors")>>
          /\ LET errors == SyncErrorsWhenRequestFails(tray.sync_errors)
             IN  /\ sink_log' = <<[op |-> "setSyncErrors", errors |-> errors]>>
                 /\ tray' = [tray EXCEPT !.sync_errors = errors]
       \/ /\ ~Skips(connected)
          /\ \E ret \in SyncErrorsPayloads :
             /\ rpc_log' = <<IsConnected(connected), RequestReturned("getSyncErrors", ret)>>
             /\ LET errors == SyncErrorsWhenReturned(tray.sync_errors, ret)
                IN  /\ sink_log' = <<[op |-> "setSyncErrors", errors |-> errors]>>
                    /\ tray' = [tray EXCEPT !.sync_errors = errors]
    /\ UNCHANGED <<env, timers, connections, box_open, notification, poller, lifecycle>>

(* --------------------------- the environment --------------------------- *)

\* the daemon's connection comes and goes at any time
DaemonConnects ==
    /\ ~connected
    /\ connected' = TRUE
    /\ UNCHANGED <<notify, mac, timers, connections, slot_idx, box_open,
                   notification, poller, tray, logs, tick_trace, lifecycle>>

DaemonDisconnects ==
    /\ connected
    /\ connected' = FALSE
    /\ UNCHANGED <<notify, mac, timers, connections, slot_idx, box_open,
                   notification, poller, tray, logs, tick_trace, lifecycle>>

\* the user changes a setting between two slots of the event loop
SetNotify ==
    /\ Idle
    /\ notify' = ~notify
    /\ UNCHANGED <<connected, mac, timers, connections, slot_idx, box_open,
                   notification, poller, tray, logs, tick_trace, lifecycle>>

Next ==
    \/ start
    \/ onDaemonDead
    \/ onDaemonRestarted
    \/ Elapse
    \/ timeout
    \/ checkSeaDriveEvents
    \/ checkNotification
    \/ deletingConfirmationBoxReturns
    \/ checkSyncStatus
    \/ checkSyncErrors
    \/ DaemonConnects
    \/ DaemonDisconnects
    \/ SetNotify

Spec == Init /\ [][Next]_vars


(* ------------------------------ properties ----------------------------- *)

\* the token sequence sub occurs in s
Contains(s, sub) ==
    \E i \in 1..(Len(s) - Len(sub) + 1) : SubSeq(s, i, i + Len(sub) - 1) = sub

Count(log, op) == Cardinality({ i \in DOMAIN log : log[i].op = op })

\* the slot that ran last got a payload from its channel
ReceivedPayload == Len(rpc_log) >= 2 /\ rpc_log[2].ret

\* the type tag of that payload
ReceivedType == getString(rpc_log[2].payload, "type")

LastSlot == IF tick_trace = <<>> THEN "none" ELSE Last(tick_trace)

\* a step in which a slot returns, or blocks in the prompt
SlotStep == tick_trace' # tick_trace \/ (~box_open /\ box_open')

\* the order of the channels: fs-events, notifications, sync-status, sync-errors
ChannelOrder ==
    <<"checkSeaDriveEvents", "checkNotification", "checkSyncStatus", "checkSyncErrors">>

ConfirmationReceived ==
    /\ ReceivedPayload
    /\ rpc_log[2].op = "getSyncNotification"
    /\ ReceivedType \in {<<"del_confirmation">>, <<"del_repo_confirmation">>}

\* C1: a del_confirmation or del_repo_confirmation payload is answered with
\* exactly one addDelConfirmation call: none while the prompt is open, one
\* once checkNotification has returned, whatever the prompt returned.
C1_ExactlyOneAnswer ==
    ConfirmationReceived =>
        /\ box_open => Count(rpc_log, "addDelConfirmation") = 0
        /\ ~box_open => /\ Count(rpc_log, "addDelConfirmation") = 1
                        /\ LastSlot = "checkNotification"

C1_Witness ==
    /\ ConfirmationReceived
    /\ ~box_open
    /\ \E i \in DOMAIN sink_log :
          /\ sink_log[i].op = "deletingConfirmationBoxReturned"
          /\ sink_log[i].answer = "dismissed"
    /\ Count(rpc_log, "addDelConfirmation") = 1

\* C2: the answer carries the confirmation_id of the payload being processed
\* and the negation of the prompt result: FALSE when the user confirmed, TRUE
\* when the user declined or dismissed.
C2_AnswerNegatesPromptResult ==
    \A i \in DOMAIN rpc_log :
        rpc_log[i].op = "addDelConfirmation" =>
            /\ ConfirmationReceived
            /\ rpc_log[i].id = getString(rpc_log[2].payload, "confirmation_id")
            /\ \E j \in DOMAIN sink_log :
                  /\ sink_log[j].op = "deletingConfirmationBoxReturned"
                  /\ rpc_log[i].arg = ~sink_log[j].result
                  /\ sink_log[j].answer = "yes" => rpc_log[i].arg = FALSE
                  /\ sink_log[j].answer \in {"no", "dismissed"} => rpc_log[i].arg = TRUE

C2_Witness ==
    /\ ConfirmationReceived
    /\ ReceivedType = <<"del_confirmation">>
    /\ \E i \in DOMAIN rpc_log :
          /\ rpc_log[i].op = "addDelConfirmation"
          /\ rpc_log[i].id = <<"conf-", "2">>
          /\ rpc_log[i].arg = FALSE

\* C3: a check that finds the daemon disconnected requests no payload and
\* decodes, classifies and dispatches nothing: its only Daemon Client call is
\* the isConnected() that returned false, and the poller's and the tray's
\* state stay as they were.
C3_DisconnectedCheckDoesNothing ==
    [][ (slot_idx > 0 /\ ~box_open /\ ~connected /\ SlotStep) =>
            /\ rpc_log' = <<[op |-> "isConnected", ret |-> FALSE]>>
            /\ sink_log' = <<>>
            /\ fs_loaded_emitted' = 0
            /\ ~box_open'
            /\ UNCHANGED <<last_event_path_, last_event_type_, tray, notification>> ]_vars

C3_Witness ==
    /\ LastSlot = "checkNotification"
    /\ ~connected
    /\ rpc_log = <<[op |-> "isConnected", ret |-> FALSE]>>
    /\ sink_log = <<>>

\* C4 as stated: after a sync-errors check that found the daemon disconnected,
\* the tray's error list is empty.
C4_ResetOnDisconnect ==
    (LastSlot = "checkSyncErrors" /\ rpc_log = <<[op |-> "isConnected", ret |-> FALSE]>>)
        => tray.sync_errors = <<>>

\* C4 amended: a sync-errors check that finds the daemon disconnected leaves
\* the tray's error list as it was and calls nothing on the tray; the list is
\* reset to empty when the daemon is connected and getSyncErrors fails.
C4_DisconnectKeepsErrors ==
    [][ (slot_idx > 0 /\ ~box_open /\ connections[slot_idx] = "checkSyncErrors" /\ SlotStep) =>
            /\ ~connected => (tray' = tray /\ sink_log' = <<>>)
            /\ (connected /\ ~rpc_log'[2].ret) => tray'.sync_errors = <<>> ]_vars

C4_Witness ==
    /\ LastSlot = "checkSyncErrors"
    /\ rpc_log = <<[op |-> "isConnected", ret |-> FALSE]>>
    /\ tray.sync_errors # <<>>

\* C5: a sync-errors check made while connected replaces the tray's error
\* list: by the errors of this response, one per element and in its order, or
\* by the empty list when getSyncErrors returned no payload.
C5_FullStateReplace ==
    [][ (slot_idx > 0 /\ ~box_open /\ connections[slot_idx] = "checkSyncErrors"
            /\ connected /\ SlotStep) =>
            LET req    == rpc_log'[2]
                errors == tray'.sync_errors
            IN  /\ req.op = "getSyncErrors"
                /\ sink_log' = <<[op |-> "setSyncErrors", errors |-> errors]>>
                /\ ~req.ret => errors = <<>>
                /\ req.ret =>
                      /\ Len(errors) = Len(req.payload)
                      /\ \A i \in DOMAIN errors :
                            errors[i].error_id = req.payload[i].err_id ]_vars

C5_Witness ==
    /\ LastSlot = "checkSyncErrors"
    /\ ReceivedPayload
    /\ Len(rpc_log[2].payload) = 1
    /\ Len(tray.sync_errors) = 1
    /\ tray.sync_errors[1].error_id = 1

\* C6: whatever lifecycle calls were made there is at most one running tick
\* timer, its interval is 1000 ms, it runs after start() and after
\* onDaemonRestarted(), and a tick that is over ran each of the four checks
\* exactly once.
C6_SingleTimer ==
    /\ Len(timers) <= 1
    /\ \A i \in DOMAIN timers : timers[i].interval = 1000
    /\ lifecycle \in {"started", "restarted"} => Len(timers) = 1
    /\ (Idle /\ tick_trace # <<>>) =>
          \A i \in DOMAIN ChannelOrder :
              Cardinality({ j \in DOMAIN tick_trace : tick_trace[j] = ChannelOrder[i] }) = 1

C6_Witness ==
    /\ lifecycle = "restarted"
    /\ Len(timers) = 1
    /\ Idle
    /\ Len(tick_trace) = 4

\* C7: while the last lifecycle call is onDaemonDead() no tick begins and the
\* poller calls nothing: no slot runs, no Daemon Client or tray call is
\* logged; after onDaemonRestarted() the timer runs again.
C7_NoTickWhileDead ==
    [][ /\ lifecycle = "dead" =>
            /\ Idle
            /\ UNCHANGED <<slot_idx, box_open, tick_trace, rpc_log, sink_log,
                           fs_loaded_emitted, tray, last_event_path_, last_event_type_>>
        /\ lifecycle = "restarted" => timers # <<>> ]_vars

C7_Witness ==
    /\ lifecycle = "restarted"
    /\ Len(tick_trace) = 2
    /\ slot_idx = 3

\* C8: the checks of a tick run one at a time in the order fs-events,
\* notifications, sync-status, sync-errors: what a tick has run so far is a
\* prefix of that order, and the next slot is the one that follows it.
C8_FixedOrder ==
    /\ Len(tick_trace) <= Len(ChannelOrder)
    /\ tick_trace = SubSeq(ChannelOrder, 1, Len(tick_trace))
    /\ slot_idx > 0 =>
          /\ slot_idx = Len(tick_trace) + 1
          /\ connections[slot_idx] = ChannelOrder[slot_idx]
    /\ box_open => tick_trace = <<"checkSeaDriveEvents">>

C8_Witness ==
    /\ tick_trace = ChannelOrder
    /\ Idle
    /\ ReceivedPayload

\* the slot that ran last skipped, got no payload, or dispatched nothing
FailedOutcome ==
    \/ rpc_log = <<[op |-> "isConnected", ret |-> FALSE]>>
    \/ Len(rpc_log) = 2 /\ ~rpc_log[2].ret
    \/ ReceivedPayload /\ sink_log = <<>>

\* C9: a check that finds the daemon disconnected, gets no payload or
\* dispatches nothing for the payload it got is followed, in the same tick, by
\* the next channel's check; a tick that is over attempted all four.
C9_FailureDoesNotBlockOthers ==
    [][ /\ (slot_idx > 0 /\ tick_trace' # tick_trace /\ FailedOutcome') =>
            LET k == Len(tick_trace')
            IN  /\ k < 4 => (slot_idx' = k + 1 /\ connections[slot_idx'] = ChannelOrder[k + 1])
                /\ k = 4 => slot_idx' = 0
        /\ (Idle /\ tick_trace # <<>>) => Len(tick_trace) = 4 ]_vars

C9_Witness ==
    /\ tick_trace = <<"checkSeaDriveEvents", "checkNotification">>
    /\ rpc_log = <<[op |-> "isConnected", ret |-> FALSE]>>
    /\ slot_idx = 3

\* C10 as stated: the tick handler never waits for user input.
C10_NeverWaitsForUser == ~box_open

\* C10 amended: the tick handler waits for user input only in the
\* notifications check, and only while it processes a del_confirmation or
\* del_repo_confirmation payload; no other payload makes it wait.
C10_WaitsOnlyForConfirmation ==
    box_open =>
        /\ slot_idx > 0
        /\ connections[slot_idx] = "checkNotification"
        /\ ConfirmationReceived
        /\ notification.type \in {<<"del_confirmation">>, <<"del_repo_confirmation">>}

C10_Witness ==
    /\ box_open
    /\ notification.type = <<"del_repo_confirmation">>
    /\ \E i \in DOMAIN timers : timers[i].remaining = 0

\* the slot that ran last got a payload from the notification channel
NotificationReceived == ReceivedPayload /\ rpc_log[2].op = "getSyncNotification"

\* that payload as checkNotification decoded it
DecodedNotification == SyncNotification_fromJson(rpc_log[2].payload)

\* the fields of a notification that are not at their default
PopulatedFields(n) ==
    { f \in DOMAIN DefaultNotification \ {"type"} : n[f] # DefaultNotification[f] }

SyncFields == {"repo_id", "repo_name", "commit_id", "parent_commit_id", "commit_desc"}
SyncErrorFields == {"error_id", "error_path", "error"}
SyncTypes == {T_sync_done, T_multipart_upload, T_sync_error}

\* the fields of the variant a type tag selects; fs-loaded and the tags
\* that are not listed select none
VariantFields(type) ==
    IF StartsWith(type, T_cross_repo_move_prefix) THEN {"move"}
    ELSE IF type = T_del_confirmation THEN {"repo_name", "confirmation_id", "delete_files"}
    ELSE IF type = T_del_repo_confirmation THEN {"repo_name", "confirmation_id"}
    ELSE IF type \in ActionTypes THEN {"repo_id", "repo_path", "domain_id", "is_dir"}
    ELSE IF type = T_sync_error THEN SyncFields \cup SyncErrorFields
    ELSE IF type \in SyncTypes THEN SyncFields
    ELSE {}

\* the tags decoded by the final else of the decoder
DecodedAsSync(type) ==
    /\ ~StartsWith(type, T_cross_repo_move_prefix)
    /\ type \notin ConfirmationTypes \cup ActionTypes

\* C11 as stated: decoding a notification payload populates only the fields
\* of the variant its type selects; an fs-loaded payload and one of an
\* unknown type populate no field but the raw type.
C11_OnlyVariantFields ==
    NotificationReceived =>
        PopulatedFields(DecodedNotification) \subseteq VariantFields(ReceivedType)

\* C11: a cross-repo-move, confirmation or action payload populates only the
\* fields of its own variant; every other payload (sync.*, fs-loaded, an
\* unknown or a missing type) gets the five repo and commit fields from the
\* payload's keys, and the error fields stay at their defaults unless the
\* type is sync.error.
C11_VariantOrSyncFields ==
    NotificationReceived =>
        LET n == DecodedNotification
            json == rpc_log[2].payload
        IN  /\ n.type = ReceivedType
            /\ IF DecodedAsSync(n.type)
               THEN /\ \A f \in SyncFields : n[f] = getString(json, f)
                    /\ PopulatedFields(n) \subseteq
                          SyncFields \cup (IF n.type = T_sync_error
                                           THEN SyncErrorFields ELSE {})
               ELSE PopulatedFields(n) \subseteq VariantFields(n.type)
            /\ box_open => notification = n

\* an fs-loaded payload carrying repo and commit keys was decoded
C11_Witness ==
    /\ NotificationReceived
    /\ ReceivedType = T_fs_loaded
    /\ DecodedNotification.repo_name = <<"Docs">>
    /\ DecodedNotification.commit_id = <<"commit-2">>
    /\ fs_loaded_emitted = 1

\* the slot that ran last got a payload from the fs-events channel
FsEventReceived == ReceivedPayload /\ rpc_log[2].op = "getSeaDriveEvents"

\* that payload as checkSeaDriveEvents decoded it
DecodedEvent == SeaDriveEvent_fromJson(rpc_log[2].payload)

\* the notification tags processNotification has a branch for
ListedNotification(type) ==
    \/ type \in SyncTypes \cup {T_fs_loaded} \cup ConfirmationTypes \cup ActionTypes
    \/ StartsWith(type, T_cross_repo_move_prefix)

\* the slot that ran last called nothing but isConnected() and its channel
\* request, emitted nothing, and returned: the tick is at the next channel
NoEffectAndTickGoesOn ==
    /\ sink_log = <<>>
    /\ fs_loaded_emitted = 0
    /\ Len(rpc_log) = 2
    /\ ~box_open
    /\ LET k == Len(tick_trace)
       IN  /\ k \in 1..4
           /\ tick_trace[k] = ChannelOrder[k]
           /\ slot_idx = (IF k < 4 THEN k + 1 ELSE 0)

\* C12 as stated: an fs-event payload whose type is not a recognized
\* fs_op_error tag, and a notification payload whose type is not a listed
\* tag, cause no Action Sink call and no Daemon Client call, and the tick
\* continues with the next channel.
C12_UnknownTagNoEffect ==
    /\ (FsEventReceived /\ ReceivedType \notin {T_create_root_file, T_remove_repo}) =>
           (DecodedEvent.fs_op_error = "UNKNOWN_ERROR" /\ NoEffectAndTickGoesOn)
    /\ (NotificationReceived /\ ~ListedNotification(ReceivedType)) => NoEffectAndTickGoesOn

\* C12: the same, for the fs-event payloads whose type is neither a
\* recognized fs_op_error tag nor file-download.start or file-download.done:
\* a file-download payload also decodes to kind Unknown, and is shown.
C12_UnknownTagNoEffectButDownloads ==
    /\ (FsEventReceived /\ ReceivedType \notin {T_create_root_file, T_remove_repo}) =>
           /\ DecodedEvent.fs_op_error = "UNKNOWN_ERROR"
           /\ ReceivedType \notin {T_download_start, T_download_done} => NoEffectAndTickGoesOn
           /\ ReceivedType \in {T_download_start, T_download_done} =>
                  (Len(sink_log) = 1 /\ sink_log[1].op = "showMessage")
    /\ (NotificationReceived /\ ~ListedNotification(ReceivedType)) => NoEffectAndTickGoesOn

\* an fs-event payload of an unknown fs_op_error tag was processed
C12_Witness ==
    /\ FsEventReceived
    /\ ReceivedType = Tag2("fs_op_error", "rename")
    /\ tick_trace = <<"checkSeaDriveEvents">>
    /\ slot_idx = 2

\* C13 as stated: an fs_op_error.create_root_file payload with path p is
\* answered by exactly one show-warning action whose body references the
\* base name of p.
C13_WarningBodyNamesFile ==
    (FsEventReceived /\ ReceivedType = T_create_root_file) =>
        /\ Len(sink_log) = 1
        /\ sink_log[1].op = "showWarningMessage"
        /\ Contains(sink_log[1].body, getBaseName(getString(rpc_log[2].payload, "path")))

\* C13: an fs_op_error.create_root_file payload with path p is answered by
\* exactly one show-warning action; its title references the base name of
\* p, and its body is a fixed text that does not.
C13_WarningTitleNamesFile ==
    (FsEventReceived /\ ReceivedType = T_create_root_file) =>
        LET base == getBaseName(getString(rpc_log[2].payload, "path"))
        IN  /\ DecodedEvent.fs_op_error = "CREATE_ROOT_FILE"
            /\ Len(sink_log) = 1
            /\ sink_log[1].op = "showWarningMessage"
            /\ Contains(sink_log[1].title, base)
            /\ sink_log[1].body # <<>>
            /\ base # <<>> => ~Contains(sink_log[1].body, base)

\* the warning for /mnt/x/foo.txt was dispatched, with foo.txt in its title
C13_Witness ==
    /\ FsEventReceived
    /\ ReceivedType = T_create_root_file
    /\ getString(rpc_log[2].payload, "path") = Path_foo
    /\ Len(sink_log) = 1
    /\ Contains(sink_log[1].title, <<"foo.txt">>)

\* the Action Sink got one showMessage call with this icon
ShownOnce(icon) ==
    /\ Len(sink_log) = 1
    /\ sink_log[1].op = "showMessage"
    /\ sink_log[1].icon = icon

\* C14: a sync.done or sync.multipart_upload notification is shown, with the
\* payload's repo_name in the title, exactly when notify() is on while it is
\* processed, and calls nothing when it is off; sync.error, fs-loaded and
\* cross-repo-move notifications are shown whatever notify() is (a sync.error
\* is held back only by the Mac rule on the invalid-path error id).  notify()
\* cannot change between the processing and the state looked at: the setting
\* changes between ticks only.
C14_NotifyGatesSyncDoneAndUpload ==
    NotificationReceived =>
        /\ ReceivedType \in {T_sync_done, T_multipart_upload} =>
              IF notify
              THEN /\ ShownOnce("Information")
                   /\ getString(rpc_log[2].payload, "repo_name") # <<>>
                   /\ Contains(sink_log[1].title, getString(rpc_log[2].payload, "repo_name"))
              ELSE sink_log = <<>>
        /\ (ReceivedType = T_fs_loaded \/ StartsWith(ReceivedType, T_cross_repo_move_prefix)) =>
              ShownOnce("Information")
        /\ ReceivedType = T_sync_error =>
              \/ ShownOnce("Warning")
              \/ /\ mac
                 /\ getLong(rpc_log[2].payload, "err_id") = SYNC_ERROR_ID_INVALID_PATH_ON_WINDOWS
                 /\ sink_log = <<>>

\* a sync.done notification was shown with notifications enabled
C14_Witness ==
    /\ NotificationReceived
    /\ ReceivedType = T_sync_done
    /\ notify
    /\ ShownOnce("Information")
    /\ Contains(sink_log[1].title, <<"Docs">>)

\* seg is what follows the last "." of type
IsLastSegment(seg, type) ==
    \E i \in 1..Len(type) :
        /\ type[i] = "."
        /\ seg = SubSeq(type, i + 1, Len(type))
        /\ \A j \in (i + 1)..Len(type) : type[j] # "."

\* what the title and the body of a cross-repo-move notification begin with
MoveVerb(subtype) ==
    IF subtype = <<"start">> THEN "Starting to move \""
    ELSE IF subtype = <<"done">> THEN "Successfully moved \""
    ELSE "Failed to move \""

\* C15: for a notification whose type starts with "cross-repo-move.", the
\* subtype is the last dot-separated segment of the type; the subtypes start,
\* done and error give a title and a body that begin with a text of their
\* own (so the three pairs differ) and name the source's base name, any other
\* subtype, the empty one included, gives an empty title and an empty body;
\* showMessage is called once in every case.
C15_CrossRepoMoveTexts ==
    (NotificationReceived /\ StartsWith(ReceivedType, T_cross_repo_move_prefix)) =>
        LET subtype == DecodedNotification.move.type
            src == getBaseName(getString(rpc_log[2].payload, "srcpath"))
        IN  /\ IsLastSegment(subtype, ReceivedType)
            /\ ShownOnce("Information")
            /\ fs_loaded_emitted = 0
            /\ IF subtype \in {<<"start">>, <<"done">>, <<"error">>}
               THEN /\ sink_log[1].title # <<>> /\ sink_log[1].title[1] = MoveVerb(subtype)
                    /\ sink_log[1].body # <<>> /\ sink_log[1].body[1] = MoveVerb(subtype)
                    /\ sink_log[1].title # sink_log[1].body
                    /\ Contains(sink_log[1].title, src)
                    /\ Contains(sink_log[1].body, src)
               ELSE sink_log[1].title = <<>> /\ sink_log[1].body = <<>>

\* a cross-repo-move notification with the empty subtype was shown, with an
\* empty title and body
C15_Witness ==
    /\ NotificationReceived
    /\ ReceivedType = T_cross_repo_move_prefix
    /\ DecodedNotification.move.type = <<>>
    /\ ShownOnce("Information")
    /\ sink_log[1].title = <<>>

\* a step in which a slot processes an fs-loaded notification
FsLoadedProcessed ==
    /\ slot_idx > 0 /\ ~box_open /\ connections[slot_idx] = "checkNotification"
    /\ tick_trace' = Append(tick_trace, "checkNotification")
    /\ NotificationReceived' /\ ReceivedType' = T_fs_loaded

\* C16: seadriveFSLoaded is emitted once by every step that processes an
\* fs-loaded notification, in whatever tick it arrives, and by no other step:
\* a slot that processes anything else, on any channel, emits none, and
\* between slots the count of the last slot stands.
C16_SignalOncePerFsLoaded ==
    [][ /\ FsLoadedProcessed => fs_loaded_emitted' = 1
        /\ (~FsLoadedProcessed /\ SlotStep) => fs_loaded_emitted' = 0
        /\ (~FsLoadedProcessed /\ ~SlotStep) =>
               (fs_loaded_emitted' = fs_loaded_emitted \/ fs_loaded_emitted' = 0) ]_vars

\* an fs-loaded notification was processed and the signal emitted once, in a
\* tick after the first (the tray already shows an earlier tick's status)
C16_Witness ==
    /\ NotificationReceived
    /\ ReceivedType = T_fs_loaded
    /\ fs_loaded_emitted = 1
    /\ tick_trace = <<"checkSeaDriveEvents", "checkNotification">>
    /\ tray.rotating

\* the i-th Daemon Client call of the log after a slot step was made by that
\* step: all of them when a slot ran, those after the prompt when the
\* blocked processNotification went on
MadeNow(i) == ~box_open \/ i > Len(rpc_log)

\* C17 as stated: every Daemon Client request (a channel request or
\* addDelConfirmation) directly follows, within the same step, an
\* isConnected() call that returned true, and is made while the daemon is
\* connected.
C17_EveryRequestFollowsCheck ==
    [][ SlotStep =>
          \A i \in DOMAIN rpc_log' :
              (MadeNow(i) /\ rpc_log'[i].op # "isConnected") =>
                  /\ i > 1 /\ MadeNow(i - 1)
                  /\ rpc_log'[i - 1] = IsConnected(TRUE)
                  /\ connected ]_vars

\* C17: each of the four channel requests directly follows, within the same
\* step, an isConnected() call that returned true, and is made while the
\* daemon is connected; addDelConfirmation follows the one check made at the
\* start of checkNotification, before the prompt was opened: no check is made
\* after the prompt has returned, whatever the daemon did meanwhile.
C17_ChannelRequestsFollowCheck ==
    [][ SlotStep =>
          \A i \in DOMAIN rpc_log' :
              (MadeNow(i) /\ rpc_log'[i].op # "isConnected") =>
                  IF rpc_log'[i].op = "addDelConfirmation"
                  THEN /\ box_open /\ i = 3
                       /\ rpc_log[1] = IsConnected(TRUE)
                       /\ Count(rpc_log', "isConnected") = 1
                  ELSE /\ ~box_open /\ i = 2
                       /\ rpc_log'[1] = IsConnected(TRUE)
                       /\ connected ]_vars

\* the answer to a confirmation was sent after the daemon had disconnected
\* while the prompt was open
C17_Witness ==
    /\ Count(rpc_log, "addDelConfirmation") = 1
    /\ rpc_log[1] = IsConnected(TRUE)
    /\ \E j \in DOMAIN sink_log :
          /\ sink_log[j].op = "deletingConfirmationBoxReturned"
          /\ ~sink_log[j].daemon_connected

\* C18: a sync-status check that finds the daemon connected and gets a status
\* payload calls rotate(is_syncing) and then setTransferRate, with the
\* payload's (sent_bytes, recv_bytes) when is_syncing is true and with (0, 0)
\* when it is false, also when the tray already shows just that; a check that
\* finds the daemon disconnected or gets no payload calls neither and leaves
\* the tray as it was.
C18_StatusIsLevelTriggered ==
    [][ tick_trace' = Append(tick_trace, "checkSyncStatus") =>
          IF ReceivedPayload'
          THEN LET json == rpc_log'[2].payload
                   syncing == getLong(json, "is_syncing") # 0
                   sent == IF syncing THEN getLong(json, "sent_bytes") ELSE 0
                   recv == IF syncing THEN getLong(json, "recv_bytes") ELSE 0
               IN  /\ connected
                   /\ rpc_log'[2].op = "getGlobalSyncStatus"
                   /\ sink_log' = <<[op |-> "rotate", active |-> syncing],
                                    [op |-> "setTransferRate", sent |-> sent, recv |-> recv]>>
                   /\ tray' = [tray EXCEPT !.rotating = syncing, !.sent = sent, !.recv = recv]
          ELSE /\ sink_log' = <<>>
               /\ tray' = tray
               /\ ~connected => rpc_log' = <<IsConnected(FALSE)>> ]_vars

\* a status that is not syncing but carries byte counts was shown as (0, 0)
C18_Witness ==
    /\ LastSlot = "checkSyncStatus"
    /\ ReceivedPayload
    /\ getLong(rpc_log[2].payload, "is_syncing") = 0
    /\ getLong(rpc_log[2].payload, "sent_bytes") = MaxBytes
    /\ sink_log = <<[op |-> "rotate", active |-> FALSE],
                    [op |-> "setTransferRate", sent |-> 0, recv |-> 0]>>
    /\ ~tray.rotating

\* C19 as stated: onDaemonDead() on a stopped poller changes nothing, and
\* onDaemonRestarted() or start() on a running poller changes nothing: the
\* next tick fires when it would have fired without the call.
C19_LifecycleCallsIdempotent ==
    [][ /\ (onDaemonDead /\ timers = <<>>) => timers' = timers
        /\ ((onDaemonRestarted \/ start) /\ timers # <<>>) => timers' = timers ]_vars

\* C19: onDaemonDead() on a stopped poller leaves it stopped and changes
\* nothing else; onDaemonRestarted() or start() on a running poller leaves
\* one timer running at the default interval and restarts that interval:
\* the next tick fires a full interval after the call, however little of
\* the interval was left.
C19_RestartBeginsNewInterval ==
    [][ /\ (onDaemonDead /\ timers = <<>>) =>
               (timers' = <<>> /\ UNCHANGED <<connections, slot_idx, poller, tray, tick_trace>>)
        /\ ((onDaemonRestarted \/ start) /\ timers # <<>>) =>
               /\ timers' = <<[interval |-> kCheckNotificationIntervalMSecs,
                               remaining |-> kCheckNotificationIntervalMSecs]>>
               /\ UNCHANGED <<connections, slot_idx, poller, tray, tick_trace>> ]_vars

\* onDaemonRestarted() was called after a tick of the running timer: a full
\* interval is left again
C19_Witness ==
    /\ lifecycle = "restarted"
    /\ Idle
    /\ Len(tick_trace) = 4
    /\ Len(timers) = 1
    /\ timers[1].remaining = kCheckNotificationIntervalMSecs

\* a step of checkSeaDriveEvents that got and processed a payload
FsEventProcessed ==
    /\ tick_trace' = Append(tick_trace, "checkSeaDriveEvents")
    /\ FsEventReceived'

\* C20 as stated: a step that processes an fs-event payload writes
\* last_event_path_ to the event's path and last_event_type_ to its raw
\* type, whatever the type; no other step changes either field.
C20_BothFieldsWritten ==
    [][ IF FsEventProcessed
        THEN /\ last_event_path_' = getString(rpc_log'[2].payload, "path")
             /\ last_event_type_' = getString(rpc_log'[2].payload, "type")
        ELSE UNCHANGED <<last_event_path_, last_event_type_>> ]_vars

\* C20: a step that processes an fs-event payload writes last_event_path_
\* to the event's path, whatever the type, and last_event_type_ to the raw
\* type only when that is file-download.start or file-download.done: for any
\* other type last_event_type_ keeps its value.  No other step changes
\* either field.
C20_TypeWrittenForDownloadsOnly ==
    [][ IF FsEventProcessed
        THEN LET type == getString(rpc_log'[2].payload, "type")
             IN  /\ last_event_path_' = getString(rpc_log'[2].payload, "path")
                 /\ last_event_type_' = (IF type \in {T_download_start, T_download_done}
                                         THEN type ELSE last_event_type_)
        ELSE UNCHANGED <<last_event_path_, last_event_type_>> ]_vars

\* an fs_op_error event was processed after a download event: the path is
\* the new event's, the type still the download's
C20_Witness ==
    /\ FsEventReceived
    /\ ReceivedType = T_remove_repo
    /\ last_event_path_ = Path_foo
    /\ last_event_type_ = T_download_done

====
